---- MODULE Spec2Model ----
(***************************************************************************)
(* Model of Idle Stuff: the tick engine (GameLogic), the SQLite save slot  *)
(* (GameDatabase), the main loop (IdleStuffGame) and the ncurses input     *)
(* side (NCursesDisplay).                                                  *)
(*                                                                         *)
(* Reals are fixed point.  efficiency, cooperation, stamina, player_boost  *)
(* and the boost multiplier are in tenths; learning_rate and experience    *)
(* are in hundredths; resource amounts and production rates are in units   *)
(* of 1/10000, so that efficiency * (1 + experience * 0.1) is the integer  *)
(* efficiency * (1000 + experience) with no rounding.  tick_rate is in     *)
(* microseconds.                                                           *)
(***************************************************************************)
EXTENDS Integers, Sequences, FiniteSets, TLC

VARIABLES
    state,               \* GameLogic.state : GameState
    database,            \* the tables of GameDatabase (game_id 1 is the only slot)
    auto_save_interval,  \* GameLogic.auto_save_interval
    tick_data,           \* the dict returned by the last GameLogic.tick
    op,                  \* the last operation that ran, with its arguments and result
    running,             \* IdleStuffGame.running
    tick_rate,           \* IdleStuffGame.tick_rate
    last_boost_message,  \* IdleStuffGame.last_boost_message
    pc,                  \* position of the main thread in IdleStuffGame.run
    input_queue,         \* NCursesDisplay.input_queue (queue.Queue of raw keys)
    reader,              \* the _input_handler thread: "running" or "stopped"
    keys_pressed,        \* how many keys the terminal has delivered so far
    current_selection,   \* NCursesDisplay.current_selection
    selectable_items,    \* NCursesDisplay.selectable_items (the entity ids)
    rendered,            \* the snapshot last passed to Display.render
    shutlog,             \* the shutdown steps performed so far, oldest first
    calls,               \* how many calls, or iterations of the loop, have started
    mid_tick             \* GameLogic.tick was abandoned between two of its statements

vars == <<state, database, auto_save_interval, tick_data, op, running, tick_rate,
          last_boost_message, pc, input_queue, reader, keys_pressed,
          current_selection, selectable_items, rendered, shutlog, calls, mid_tick>>

loopVars == <<running, tick_rate, last_boost_message, pc, input_queue, reader,
              keys_pressed, current_selection, selectable_items, rendered, shutlog,
              mid_tick>>

----------------------------------------------------------------------------
(* Bounds of the model *)

\* the terminal delivers at most this many keys in a run
MaxKeys == 2

\* GameLogic is called directly at most this many times in a sequence of calls
MaxCalls == 3

\* at most this many entities roll a discovery in the same tick
MaxLucky == 1

\* IdleStuffGame.run starts at most this many iterations of its loop
MaxIterations == 2

\* _handle_input is given at most this many commands in a sequence of commands
MaxCommands == 12

\* with a configurable interval, GameLogic.tick is not called once state.tick is this
MaxAutoSaveTick == 30

\* the longest auto_save_interval the configuration is drawn from
MaxInterval == 10

----------------------------------------------------------------------------
(* Program constants *)

NoTask == "None"                 \* current_task = None (NULL in the table)
Gathering == "gathering"
Energy == "energy"
EntityIds == <<"entity_0", "entity_1", "entity_2">>   \* f"entity_{i}" for i in range(3)
StartEnergy == 100000            \* Resource("energy", amount=10.0)
DefaultInterval == 10            \* self.auto_save_interval = 10
DefaultBoost == 20               \* boost_multiplier: float = 2.0
StartTickRate == 1000000         \* self.tick_rate = 1.0
MinTickRate == 100000            \* max(0.1, ...)
MaxTickRate == 5000000           \* min(5.0, ...)

\* dict.get(key, default)
Get(d, k, default) == IF k \in DOMAIN d THEN d[k] ELSE default

\* d[k] = v on a dict
Put(d, k, v) == [x \in DOMAIN d \cup {k} |-> IF x = k THEN v ELSE d[x]]

\* the keys of a dict in iteration order (the ids are created, and indexed, in this order)
KeysInOrder(d) == SelectSeq(EntityIds, LAMBDA k : k \in DOMAIN d)

RECURSIVE SumOver(_, _)
SumOver(f, S) ==
    IF S = {} THEN 0
    ELSE LET x == CHOOSE y \in S : TRUE IN f[x] + SumOver(f, S \ {x})

\* the empty dict
EmptyDict == [x \in {} |-> 0]

----------------------------------------------------------------------------
(* Data structures *)

EntityTraits(efficiency, learning_rate, cooperation, stamina) ==
    [efficiency |-> efficiency, learning_rate |-> learning_rate,
     cooperation |-> cooperation, stamina |-> stamina]

Entity(id, name, entity_type, traits, experience, current_task) ==
    [id |-> id, name |-> name, entity_type |-> entity_type, traits |-> traits,
     experience |-> experience, current_task |-> current_task]

Resource(name, amount, production_rate) ==
    [name |-> name, amount |-> amount, production_rate |-> production_rate]

\* GameState() with the defaults of the dataclass and of __post_init__
GameState(tick, prestige_tokens, player_boost) ==
    [tick |-> tick, resources |-> EmptyDict, entities |-> EmptyDict,
     technologies |-> <<>>, prestige_tokens |-> prestige_tokens,
     player_boost |-> player_boost]

\* a user-facing message: the text, and the name and number formatted into it
Msg(text, entity, amount) == [text |-> text, entity |-> entity, amount |-> amount]

NoMsg == Msg("", "", 0)

Event(type, entity, message) == [type |-> type, entity |-> entity, message |-> message]

----------------------------------------------------------------------------
(* GameDatabase: the five tables; every row of a saved game carries game_id *)

\* the order in which the index on (game_id, tech_name) returns technology rows
TechOrder == <<"fire", "wheel">>

EmptyDatabase ==
    [game_state |-> {}, resources |-> {}, entities |-> {},
     entity_experience |-> {}, technologies |-> {}]

SlotId == 1

\* the experience rows with the wrong value bound to the last column
ExperienceRowsOfLearningRate(game_id, e) ==
    {[game_id |-> game_id, entity_id |-> e.id, task_type |-> t,
      experience |-> e.traits.learning_rate] : t \in DOMAIN e.experience}

\* the rows save_game_state inserts for one entity's experience dict
ExperienceRows(game_id, e) ==
    {[game_id |-> game_id, entity_id |-> e.id, task_type |-> t,
      experience |-> e.experience[t]] : t \in DOMAIN e.experience}

save_game_state(db, s) ==
    LET game_id == SlotId
        kept(rows) == {r \in rows : r.game_id # game_id}
    IN  [game_state |->
            {r \in db.game_state : r.id # SlotId} \cup
            {[id |-> SlotId, tick |-> s.tick, prestige_tokens |-> s.prestige_tokens,
              player_boost |-> s.player_boost]},
         resources |->
            kept(db.resources) \cup
            {[game_id |-> game_id, name |-> s.resources[k].name,
              amount |-> s.resources[k].amount,
              production_rate |-> s.resources[k].production_rate] :
                k \in DOMAIN s.resources},
         entities |->
            kept(db.entities) \cup
            {[game_id |-> game_id, entity_id |-> s.entities[k].id,
              name |-> s.entities[k].name, entity_type |-> s.entities[k].entity_type,
              current_task |-> s.entities[k].current_task,
              efficiency |-> s.entities[k].traits.efficiency,
              learning_rate |-> s.entities[k].traits.learning_rate,
              cooperation |-> s.entities[k].traits.cooperation,
              stamina |-> s.entities[k].traits.stamina] : k \in DOMAIN s.entities},
         entity_experience |->
            kept(db.entity_experience) \cup
            UNION {ExperienceRows(game_id, s.entities[k]) : k \in DOMAIN s.entities},
         technologies |->
            kept(db.technologies) \cup
            {[game_id |-> game_id, tech_name |-> s.technologies[i],
              unlocked_at |-> s.tick] : i \in DOMAIN s.technologies}]

game_exists(db) == Cardinality({r \in db.game_state : r.id = SlotId}) > 0

\* the state load_game_state builds when the game_state row is there
LoadedState(db) ==
    LET game_id == SlotId
        game_row == CHOOSE r \in db.game_state : r.id = game_id
        res_rows == {r \in db.resources : r.game_id = game_id}
        ent_rows == {r \in db.entities : r.game_id = game_id}
        exp_rows(eid) == {r \in db.entity_experience :
                            r.game_id = game_id /\ r.entity_id = eid}
        res_row(n) == CHOOSE r \in res_rows : r.name = n
        ent_row(eid) == CHOOSE r \in ent_rows : r.entity_id = eid
        exp_row(eid, t) == CHOOSE r \in exp_rows(eid) : r.task_type = t
        tech_names == {r.tech_name : r \in {x \in db.technologies : x.game_id = game_id}}
    IN  [tick |-> game_row.tick,
         resources |->
            [n \in {r.name : r \in res_rows} |->
                Resource(res_row(n).name, res_row(n).amount, res_row(n).production_rate)],
         entities |->
            [eid \in {r.entity_id : r \in ent_rows} |->
                Entity(ent_row(eid).entity_id, ent_row(eid).name, ent_row(eid).entity_type,
                       EntityTraits(ent_row(eid).efficiency, ent_row(eid).learning_rate,
                                    ent_row(eid).cooperation, ent_row(eid).stamina),
                       [t \in {r.task_type : r \in exp_rows(eid)} |->
                            exp_row(eid, t).experience],
                       ent_row(eid).current_task)],
         technologies |-> SelectSeq(TechOrder, LAMBDA n : n \in tech_names),
         prestige_tokens |-> game_row.prestige_tokens,
         player_boost |-> game_row.player_boost]

\* load_game_state: found is FALSE for the None result
load_game_state(db) ==
    IF {r \in db.game_state : r.id = SlotId} = {}
    THEN [found |-> FALSE, state |-> GameState(0, 0, 10)]
    ELSE [found |-> TRUE, state |-> LoadedState(db)]

----------------------------------------------------------------------------
(* GameLogic *)

\* what random.choice(names) and the four random.uniform draws can give an entity
GeneratedProfiles ==
    { [name |-> "Zara", traits |-> EntityTraits(10, 10, 10, 10)],
      [name |-> "Kael", traits |-> EntityTraits(12, 5, 9, 8)] }

generate_entity(entity_id, entity_type, drawn) ==
    Entity(entity_id, drawn.name, entity_type, drawn.traits,
           [t \in {Gathering} |-> 0], Gathering)

\* draws[i] is what the random source gives the i-th generated entity
initialize_base_game(s, draws) ==
    [s EXCEPT
        !.resources = Put(@, Energy, Resource(Energy, StartEnergy, 0)),
        !.entities = [id \in DOMAIN s.entities \cup {EntityIds[i] : i \in 1..3} |->
            IF \E i \in 1..3 : EntityIds[i] = id
            THEN generate_entity(id, "gatherer",
                                 draws[CHOOSE i \in 1..3 : EntityIds[i] = id])
            ELSE s.entities[id]]]

\* save_game: the new tables
save_game(db, s) == save_game_state(db, s)

\* _initialize_or_load_game without the save_game() that follows _initialize_base_game
initialize_or_load_game_unsaved(db, draws) ==
    IF game_exists(db) /\ load_game_state(db).found
    THEN [state |-> LoadedState(db), database |-> db]
    ELSE [state |-> initialize_base_game(GameState(0, 0, 10), draws), database |-> db]

\* _initialize_or_load_game: the state and the tables after GameLogic.__init__
initialize_or_load_game(db, draws) ==
    IF game_exists(db) /\ load_game_state(db).found
    THEN [state |-> LoadedState(db), database |-> db]
    ELSE LET fresh == initialize_base_game(GameState(0, 0, 10), draws)
         IN  [state |-> fresh, database |-> save_game(db, fresh)]

\* gathered = base_gathering * efficiency_mult * experience_mult
gathered(e) == e.traits.efficiency * (1000 + Get(e.experience, Gathering, 0))

\* the yield subtracted instead of added
add_gathered_negated(s, id) ==
    IF Energy \in DOMAIN s.resources
    THEN [s EXCEPT !.resources[Energy].amount = @ - gathered(s.entities[id])]
    ELSE s

\* the yield put under "energy" whether or not the resource is there
add_gathered_creates(s, id) ==
    IF Energy \in DOMAIN s.resources
    THEN [s EXCEPT !.resources[Energy].amount = @ + gathered(s.entities[id])]
    ELSE [s EXCEPT !.resources = Put(@, Energy,
                                     Resource(Energy, gathered(s.entities[id]), 0))]

\* if "energy" in self.state.resources: amount += gathered
add_gathered(s, id) ==
    IF Energy \in DOMAIN s.resources
    THEN [s EXCEPT !.resources[Energy].amount = @ + gathered(s.entities[id])]
    ELSE s

\* entity.experience["gathering"] = entity.experience.get("gathering", 0) + learning_rate
gain_experience(s, id) ==
    [s EXCEPT !.entities[id].experience =
        Put(@, Gathering, Get(@, Gathering, 0) + s.entities[id].traits.learning_rate)]

\* _process_entity_action with its two statements swapped: experience first
entity_steps_experience_first(s, id) ==
    IF s.entities[id].current_task = Gathering
    THEN LET gained == gain_experience(s, id)
         IN  <<gained, add_gathered(gained, id)>>
    ELSE <<>>

\* _process_entity_action: the states after each of its statements, in order
entity_steps(s, id) ==
    IF s.entities[id].current_task = Gathering
    THEN LET added == add_gathered(s, id)
         IN  <<added, gain_experience(added, id)>>
    ELSE <<>>

process_entity_action(s, id) ==
    LET steps == entity_steps(s, id)
    IN  IF steps = <<>> THEN s ELSE steps[Len(steps)]

\* the loop over self.state.entities.values(): every intermediate state
RECURSIVE entities_steps(_, _)
entities_steps(s, ids) ==
    IF ids = <<>> THEN <<>>
    ELSE LET steps == entity_steps(s, Head(ids))
         IN  steps \o entities_steps(IF steps = <<>> THEN s ELSE steps[Len(steps)],
                                     Tail(ids))

\* the entities the rate counts
gatherers(s) ==
    {id \in DOMAIN s.entities :
        s.entities[id].entity_type = "gatherer" /\ s.entities[id].current_task = Gathering}

\* the rate summed without the experience multiplier
energy_rate_flat(s) ==
    SumOver([id \in DOMAIN s.entities |-> s.entities[id].traits.efficiency * 1000],
            gatherers(s))

energy_rate(s) ==
    SumOver([id \in DOMAIN s.entities |->
                s.entities[id].traits.efficiency *
                (1000 + Get(s.entities[id].experience, Gathering, 0))],
            gatherers(s))

\* the rate kept as an accumulator: the new sum added to the previous rate
update_production_rates_accumulating(s) ==
    IF Energy \in DOMAIN s.resources
    THEN [s EXCEPT !.resources[Energy].production_rate = @ + energy_rate(s)]
    ELSE s

update_production_rates(s) ==
    IF Energy \in DOMAIN s.resources
    THEN [s EXCEPT !.resources[Energy].production_rate = energy_rate(s)]
    ELSE s

\* if resource.production_rate > 0: resource.amount += resource.production_rate
apply_resource_production(s, name) ==
    IF s.resources[name].production_rate > 0
    THEN [s EXCEPT !.resources[name].amount = @ + s.resources[name].production_rate]
    ELSE s

\* the order of self.state.resources.values()
ResourceOrder == <<"energy", "knowledge">>

RECURSIVE production_steps(_, _)
production_steps(s, names) ==
    IF names = <<>> THEN <<>>
    ELSE LET applied == apply_resource_production(s, Head(names))
         IN  <<applied>> \o production_steps(applied, Tail(names))

Last(seq, default) == IF seq = <<>> THEN default ELSE seq[Len(seq)]

\* GameLogic.tick up to the auto-save: the state after each statement, in order
tick_steps(s) ==
    LET s1 == [s EXCEPT !.tick = @ + 1]
        a  == entities_steps(s1, KeysInOrder(s1.entities))
        s2 == Last(a, s1)
        s3 == update_production_rates(s2)
        b  == production_steps(s3, SelectSeq(ResourceOrder,
                                             LAMBDA n : n \in DOMAIN s3.resources))
    IN  <<s1>> \o a \o <<s3>> \o b

\* tick written without its self.state.tick += 1
tick_state_no_increment(s) ==
    LET steps == tick_steps(s) IN [steps[Len(steps)] EXCEPT !.tick = s.tick]

\* the state GameLogic.tick leaves
tick_state(s) == LET steps == tick_steps(s) IN steps[Len(steps)]

\* the test made on the tick number before its increment
auto_save_due_before_increment(s, interval) == (s.tick - 1) % interval = 0

\* if self.state.tick % self.auto_save_interval == 0
auto_save_due(s, interval) == s.tick % interval = 0

\* the entities that reach the random.random() < 0.05 test
rolls(s) == {id \in DOMAIN s.entities : s.entities[id].current_task = Gathering}

\* the outcomes of the rolls of one tick: the sets of entities that rolled below 0.05
LuckySets(s) == {lucky \in SUBSET rolls(s) : Cardinality(lucky) <= MaxLucky}

\* the events of one tick; lucky is the set of entities whose roll was below 0.05
tick_events(s, after, interval, lucky) ==
    LET found == SelectSeq(KeysInOrder(s.entities), LAMBDA id : id \in rolls(s) \cap lucky)
    IN  [i \in 1..Len(found) |->
            Event("discovery", s.entities[found[i]].name,
                  Msg("found an efficient energy source!", s.entities[found[i]].name, 0))]
        \o (IF auto_save_due(after, interval)
            THEN <<Event("system", "", Msg("Game auto-saved", "", 0))>>
            ELSE <<>>)

entity_to_dict(e) ==
    [id |-> e.id, name |-> e.name, type |-> e.entity_type,
     task |-> IF e.current_task = NoTask THEN "idle" ELSE e.current_task,
     efficiency |-> e.traits.efficiency,
     experience |-> SumOver(e.experience, DOMAIN e.experience),
     traits |-> e.traits]

\* the dict GameLogic.tick returns
tick_result(after, events) ==
    [tick |-> after.tick,
     events |-> events,
     resources |-> [n \in DOMAIN after.resources |-> after.resources[n].amount],
     production_rates |-> [n \in DOMAIN after.resources |->
                              after.resources[n].production_rate],
     entities |-> [id \in DOMAIN after.entities |-> entity_to_dict(after.entities[id])]]

\* tick without its call of save_game
tick_database_never_saves(db, after, interval) == db

\* the tables GameLogic.tick leaves
tick_database(db, after, interval) ==
    IF auto_save_due(after, interval) THEN save_game(db, after) ELSE db

\* apply_player_boost without the test on current_task
apply_player_boost_any_task(s, entity_id, boost_multiplier) ==
    IF entity_id \in DOMAIN s.entities
    THEN LET entity == s.entities[entity_id]
             boosted_amount == boost_multiplier * entity.traits.efficiency * 100
         IN  [state |-> IF Energy \in DOMAIN s.resources
                        THEN [s EXCEPT !.resources[Energy].amount = @ + boosted_amount]
                        ELSE s,
              ret |-> Msg("Boosted", entity.name, (boosted_amount + 500) \div 1000)]
    ELSE [state |-> s, ret |-> Msg("Boost failed!", "", 0)]

\* apply_player_boost: the state it leaves and the string it returns
apply_player_boost(s, entity_id, boost_multiplier) ==
    IF entity_id \in DOMAIN s.entities /\ s.entities[entity_id].current_task = Gathering
    THEN LET entity == s.entities[entity_id]
             boosted_amount == boost_multiplier * entity.traits.efficiency * 100
         IN  [state |-> IF Energy \in DOMAIN s.resources
                        THEN [s EXCEPT !.resources[Energy].amount = @ + boosted_amount]
                        ELSE s,
              ret |-> Msg("Boosted", entity.name, (boosted_amount + 500) \div 1000)]
    ELSE [state |-> s, ret |-> Msg("Boost failed!", "", 0)]

----------------------------------------------------------------------------
(* NCursesDisplay: the keys and their translation *)

Keys == {"KEY_UP", "KEY_DOWN", " ", "s", "q", "r", "+", "-", "x"}

\* the keys pressed in the runs of the whole program
RunKeys == {"KEY_DOWN", " ", "s", "q"}

\* a command string: "boost:<id>" is Cmd("boost:", id), None is NoCmd
Cmd(word, arg) == [word |-> word, arg |-> arg]

NoCmd == Cmd("", "")

Max(a, b) == IF a >= b THEN a ELSE b

Min(a, b) == IF a <= b THEN a ELSE b

\* get_input once a key has been taken from the queue: the command and the selection
translate_key(key, selection, items) ==
    IF key = "KEY_UP"
        THEN [cmd |-> Cmd("nav_up", ""), current_selection |-> Max(0, selection - 1)]
    ELSE IF key = "KEY_DOWN"
        THEN [cmd |-> Cmd("nav_down", ""),
              current_selection |-> Min(Len(items) - 1, selection + 1)]
    ELSE IF key = " "
        THEN [cmd |-> IF 0 <= selection /\ selection < Len(items)
                      THEN Cmd("boost:", items[selection + 1])
                      ELSE Cmd("boost", ""),
              current_selection |-> selection]
    ELSE IF key \in {"s", "S"} THEN [cmd |-> Cmd("save", ""), current_selection |-> selection]
    ELSE IF key \in {"q", "Q"} THEN [cmd |-> Cmd("quit", ""), current_selection |-> selection]
    ELSE IF key \in {"r", "R"} THEN [cmd |-> Cmd("reset", ""), current_selection |-> 0]
    ELSE IF key \in {"+", "="} THEN [cmd |-> Cmd("speed_up", ""), current_selection |-> selection]
    ELSE IF key = "-" THEN [cmd |-> Cmd("speed_down", ""), current_selection |-> selection]
    ELSE [cmd |-> NoCmd, current_selection |-> selection]

\* get_input over a single slot: the newest key is taken and the older ones are dropped
get_input_latest_wins(queue, selection, items) ==
    IF queue = <<>>
    THEN [cmd |-> NoCmd, current_selection |-> selection, input_queue |-> queue]
    ELSE LET r == translate_key(queue[Len(queue)], selection, items)
         IN  [cmd |-> r.cmd, current_selection |-> r.current_selection,
              input_queue |-> <<>>]

\* get_input: get_nowait on the queue, then the translation; queue.Empty gives None
get_input(queue, selection, items) ==
    IF queue = <<>>
    THEN [cmd |-> NoCmd, current_selection |-> selection, input_queue |-> queue]
    ELSE LET r == translate_key(Head(queue), selection, items)
         IN  [cmd |-> r.cmd, current_selection |-> r.current_selection,
              input_queue |-> Tail(queue)]

\* _update_selectable_items keeping the entity's name where the code keeps entity_id
update_selectable_items_by_name(game_data, selection) ==
    LET ids == KeysInOrder(game_data.entities)
        items == [i \in 1..Len(ids) |-> game_data.entities[ids[i]].name]
    IN  [selectable_items |-> items,
         current_selection |-> IF selection >= Len(items)
                               THEN Max(0, Len(items) - 1)
                               ELSE selection]

\* _update_selectable_items: the items, and the selection brought back within bounds
update_selectable_items(game_data, selection) ==
    LET items == KeysInOrder(game_data.entities)
    IN  [selectable_items |-> items,
         current_selection |-> IF selection >= Len(items)
                               THEN Max(0, Len(items) - 1)
                               ELSE selection]

----------------------------------------------------------------------------
(* IdleStuffGame *)

\* f"{self.tick_rate:.1f}"
FormatRate(rate) == (rate + 50000) \div 100000

\* _handle_input with the speed commands written without max and min
handle_command_unclamped(cmd, s, db, run, rate, message) ==
    LET same == [state |-> s, database |-> db, running |-> run, tick_rate |-> rate,
                 last_boost_message |-> message]
    IN  IF cmd = NoCmd THEN same
        ELSE IF cmd = Cmd("quit", "") THEN [same EXCEPT !.running = FALSE]
        ELSE IF cmd = Cmd("save", "")
            THEN [same EXCEPT !.database = save_game(db, s),
                              !.last_boost_message = Msg("Game saved manually!", "", 0)]
        ELSE IF cmd.word = "boost:"
            THEN LET result == apply_player_boost(s, cmd.arg, DefaultBoost)
                 IN  [same EXCEPT !.state = result.state,
                                  !.last_boost_message = result.ret]
        ELSE IF cmd = Cmd("speed_up", "")
            THEN LET r == (rate * 8) \div 10
                 IN  [same EXCEPT !.tick_rate = r,
                        !.last_boost_message = Msg("Game speed increased", "", FormatRate(r))]
        ELSE IF cmd = Cmd("speed_down", "")
            THEN LET r == (rate * 125) \div 100
                 IN  [same EXCEPT !.tick_rate = r,
                        !.last_boost_message = Msg("Game speed decreased", "", FormatRate(r))]
        ELSE IF cmd = Cmd("reset", "")
            THEN [same EXCEPT !.last_boost_message = Msg("Selection reset", "", 0)]
        ELSE same

\* _handle_input testing cmd.startswith("boost") without the colon
handle_command_boost_prefix(cmd, s, db, run, rate, message) ==
    LET same == [state |-> s, database |-> db, running |-> run, tick_rate |-> rate,
                 last_boost_message |-> message]
    IN  IF cmd = NoCmd THEN same
        ELSE IF cmd = Cmd("quit", "") THEN [same EXCEPT !.running = FALSE]
        ELSE IF cmd = Cmd("save", "")
            THEN [same EXCEPT !.database = save_game(db, s),
                              !.last_boost_message = Msg("Game saved manually!", "", 0)]
        ELSE IF cmd.word \in {"boost:", "boost"}
            THEN LET result == apply_player_boost(s, cmd.arg, DefaultBoost)
                 IN  [same EXCEPT !.state = result.state,
                                  !.last_boost_message = result.ret]
        ELSE IF cmd = Cmd("speed_up", "")
            THEN LET r == Max(MinTickRate, (rate * 8) \div 10)
                 IN  [same EXCEPT !.tick_rate = r,
                        !.last_boost_message = Msg("Game speed increased", "", FormatRate(r))]
        ELSE IF cmd = Cmd("speed_down", "")
            THEN LET r == Min(MaxTickRate, (rate * 125) \div 100)
                 IN  [same EXCEPT !.tick_rate = r,
                        !.last_boost_message = Msg("Game speed decreased", "", FormatRate(r))]
        ELSE IF cmd = Cmd("reset", "")
            THEN [same EXCEPT !.last_boost_message = Msg("Selection reset", "", 0)]
        ELSE same

\* _handle_input after get_input returned cmd: what it leaves of the game
handle_command(cmd, s, db, run, rate, message) ==
    LET same == [state |-> s, database |-> db, running |-> run, tick_rate |-> rate,
                 last_boost_message |-> message]
    IN  IF cmd = NoCmd THEN same
        ELSE IF cmd = Cmd("quit", "") THEN [same EXCEPT !.running = FALSE]
        ELSE IF cmd = Cmd("save", "")
            THEN [same EXCEPT !.database = save_game(db, s),
                              !.last_boost_message = Msg("Game saved manually!", "", 0)]
        ELSE IF cmd.word = "boost:"
            THEN LET result == apply_player_boost(s, cmd.arg, DefaultBoost)
                 IN  [same EXCEPT !.state = result.state,
                                  !.last_boost_message = result.ret]
        ELSE IF cmd = Cmd("speed_up", "")
            THEN LET r == Max(MinTickRate, (rate * 8) \div 10)
                 IN  [same EXCEPT !.tick_rate = r,
                        !.last_boost_message = Msg("Game speed increased", "", FormatRate(r))]
        ELSE IF cmd = Cmd("speed_down", "")
            THEN LET r == Min(MaxTickRate, (rate * 125) \div 100)
                 IN  [same EXCEPT !.tick_rate = r,
                        !.last_boost_message = Msg("Game speed decreased", "", FormatRate(r))]
        ELSE IF cmd = Cmd("reset", "")
            THEN [same EXCEPT !.last_boost_message = Msg("Selection reset", "", 0)]
        ELSE same

----------------------------------------------------------------------------
(* The save slots a run can start from *)

\* games left in the slot by an earlier run
StoredGames ==
    { [tick |-> 9,
       resources |-> [n \in {"energy"} |-> Resource("energy", 500000, 20000)],
       entities |-> [id \in {"entity_0", "entity_1", "entity_2"} |->
          IF id = "entity_0"
            THEN Entity(id, "Zara", "gatherer", EntityTraits(10, 10, 10, 10),
                        [t \in {Gathering} |-> 50], Gathering)
          ELSE IF id = "entity_1"
            THEN Entity(id, "Kael", "philosopher", EntityTraits(12, 5, 9, 8),
                        EmptyDict, Gathering)
          ELSE Entity(id, "Luna", "builder", EntityTraits(8, 15, 11, 12),
                      [t \in {Gathering} |-> 20], NoTask)],
       technologies |-> <<>>, prestige_tokens |-> 0, player_boost |-> 10],
      [tick |-> 3,
       resources |-> [n \in {"knowledge"} |-> Resource("knowledge", 70000, 15000)],
       entities |-> [id \in {"entity_0", "entity_1"} |->
          IF id = "entity_0"
            THEN Entity(id, "Nova", "gatherer", EntityTraits(10, 10, 10, 10),
                        EmptyDict, Gathering)
          ELSE Entity(id, "Sage", "philosopher", EntityTraits(12, 5, 9, 8),
                      [t \in {"thinking"} |-> 30], "thinking")],
       technologies |-> <<>>, prestige_tokens |-> 1, player_boost |-> 10],
      [tick |-> 0,
       resources |-> [n \in {"energy"} |-> Resource("energy", 100000, 30000)],
       entities |-> EmptyDict,
       technologies |-> <<"fire">>, prestige_tokens |-> 0, player_boost |-> 15] }

InitialDatabases ==
    {EmptyDatabase} \cup {save_game_state(EmptyDatabase, g) : g \in StoredGames}

----------------------------------------------------------------------------
(* Initial states: IdleStuffGame.__init__ on a display, over a save slot *)

Op(name, entity_id, boost_multiplier, cmd, ret) ==
    [name |-> name, entity_id |-> entity_id, boost_multiplier |-> boost_multiplier,
     cmd |-> cmd, ret |-> ret]

NoTickData ==
    [tick |-> -1, events |-> <<>>, resources |-> EmptyDict,
     production_rates |-> EmptyDict, entities |-> EmptyDict]

\* the save slots, and the random draws, the runs of the whole program start from
RunDatabases ==
    {EmptyDatabase} \cup {save_game_state(EmptyDatabase, g) : g \in {x \in StoredGames : x.tick = 9}}

RunDraws == {[i \in 1..3 |-> CHOOSE p \in GeneratedProfiles : p.name = "Zara"]}

AllDraws == [1..3 -> GeneratedProfiles]

\* IdleStuffGame.__init__ and NCursesDisplay.__init__, for a given interval
Construct(interval, databases, drawn) ==
    /\ \E db \in databases, draws \in drawn :
          LET made == initialize_or_load_game(db, draws)
          IN  /\ state = made.state
              /\ database = made.database
    /\ auto_save_interval = interval
    /\ tick_data = NoTickData
    /\ op = Op("init", "", 0, NoCmd, NoMsg)
    /\ running = FALSE
    /\ tick_rate = StartTickRate
    /\ last_boost_message = NoMsg
    /\ pc = "start"
    /\ input_queue = <<>>
    /\ reader = "running"
    /\ keys_pressed = 0
    /\ current_selection = 0
    /\ selectable_items = <<>>
    /\ rendered = NoTickData
    /\ shutlog = <<>>
    /\ calls = 0
    /\ mid_tick = FALSE

Init == Construct(DefaultInterval, RunDatabases, RunDraws)

InitEngine == Construct(DefaultInterval, InitialDatabases, AllDraws)

----------------------------------------------------------------------------
(* GameLogic called directly *)

\* GameLogic.tick()
Tick ==
    LET after == tick_state(state)
    IN  /\ state' = after
        /\ database' = tick_database(database, after, auto_save_interval)
        /\ \E lucky \in LuckySets(state) :
              tick_data' = tick_result(after,
                                       tick_events(state, after, auto_save_interval, lucky))
        /\ op' = Op("tick", "", 0, NoCmd, NoMsg)

\* GameLogic.apply_player_boost(entity_id, boost_multiplier)
ApplyPlayerBoost(entity_id, boost_multiplier) ==
    LET r == apply_player_boost(state, entity_id, boost_multiplier)
    IN  /\ state' = r.state
        /\ op' = Op("apply_player_boost", entity_id, boost_multiplier, NoCmd, r.ret)
        /\ UNCHANGED <<database, tick_data>>

\* GameLogic.save_game()
SaveGame ==
    /\ database' = save_game(database, state)
    /\ op' = Op("save_game", "", 0, NoCmd, NoMsg)
    /\ UNCHANGED <<state, tick_data>>

\* the ids and multipliers apply_player_boost is called with
BoostIds == {EntityIds[i] : i \in 1..3} \cup {"entity_9"}

BoostMultipliers == {DefaultBoost, 30}

\* the commands _handle_input is given
Commands ==
    {NoCmd, Cmd("quit", ""), Cmd("save", ""), Cmd("speed_up", ""), Cmd("speed_down", ""),
     Cmd("reset", ""), Cmd("nav_up", ""), Cmd("nav_down", ""), Cmd("boost", "")}
    \cup {Cmd("boost:", id) : id \in BoostIds}

\* IdleStuffGame._handle_input() when get_input returns cmd
HandleCommand(cmd) ==
    LET r == handle_command(cmd, state, database, running, tick_rate, last_boost_message)
    IN  /\ state' = r.state
        /\ database' = r.database
        /\ running' = r.running
        /\ tick_rate' = r.tick_rate
        /\ last_boost_message' = r.last_boost_message
        /\ op' = Op("handle_input", "", 0, cmd, NoMsg)
        /\ UNCHANGED tick_data

EngineTick ==
    /\ calls < MaxCalls
    /\ calls' = calls + 1
    /\ Tick
    /\ UNCHANGED <<auto_save_interval, loopVars>>

EngineBoost ==
    /\ calls < MaxCalls
    /\ calls' = calls + 1
    /\ \E id \in BoostIds, m \in BoostMultipliers : ApplyPlayerBoost(id, m)
    /\ UNCHANGED <<auto_save_interval, loopVars>>

EngineSave ==
    /\ calls < MaxCalls
    /\ calls' = calls + 1
    /\ SaveGame
    /\ UNCHANGED <<auto_save_interval, loopVars>>

EngineCommand ==
    /\ calls < MaxCalls
    /\ calls' = calls + 1
    /\ \E cmd \in Commands : HandleCommand(cmd)
    /\ UNCHANGED <<auto_save_interval, pc, input_queue, reader, keys_pressed,
                   current_selection, selectable_items, rendered, shutlog, mid_tick>>

NextEngine == EngineTick \/ EngineBoost \/ EngineSave \/ EngineCommand

\* any sequence of calls on a constructed game
SpecEngine == InitEngine /\ [][NextEngine]_vars

----------------------------------------------------------------------------
(* IdleStuffGame._handle_input given one command after another *)

\* the commands that write the game state or the save slot
GameCommands == {Cmd("save", "")} \cup {Cmd("boost:", id) : id \in BoostIds}

\* any command; those that write the game are given among the first MaxCalls only
SpeedCommand ==
    /\ calls < MaxCommands
    /\ calls' = calls + 1
    /\ \E cmd \in Commands :
          /\ cmd \in GameCommands => calls < MaxCalls
          /\ HandleCommand(cmd)
    /\ UNCHANGED <<auto_save_interval, pc, input_queue, reader, keys_pressed,
                   current_selection, selectable_items, rendered, shutlog, mid_tick>>

NextSpeed == SpeedCommand

SpecSpeed == Init /\ [][NextSpeed]_vars

----------------------------------------------------------------------------
(* GameLogic.tick under a configurable auto_save_interval *)

InitAutoSave ==
    \E interval \in 1..MaxInterval : Construct(interval, InitialDatabases, AllDraws)

AutoSaveTick ==
    /\ state.tick < MaxAutoSaveTick
    /\ Tick
    /\ UNCHANGED <<auto_save_interval, loopVars, calls>>

NextAutoSave == AutoSaveTick

SpecAutoSave == InitAutoSave /\ [][NextAutoSave]_vars

----------------------------------------------------------------------------
(* IdleStuffGame.run with the ncurses display: the main thread *)

gameVars == <<state, database, tick_data>>

inputVars == <<input_queue, current_selection, selectable_items>>

\* self.running = True, entering the try block
RunStart ==
    /\ pc = "start"
    /\ running' = TRUE
    /\ pc' = "tick"
    /\ op' = Op("run", "", 0, NoCmd, NoMsg)
    /\ UNCHANGED <<gameVars, auto_save_interval, tick_rate, last_boost_message,
                   inputVars, reader, keys_pressed, rendered, shutlog, calls, mid_tick>>

\* the tick's events without the append of the boost message
with_player_event_dropped(data, message) == data

\* the boost message appended to the events of the tick
with_player_event(data, message) ==
    IF message # NoMsg
    THEN [data EXCEPT !.events = Append(@, Event("player", "", message))]
    ELSE data

\* the loop's tick step without `self.last_boost_message = ""`
LoopTickKeepsMessage ==
    /\ pc = "tick"
    /\ running
    /\ calls < MaxIterations
    /\ calls' = calls + 1
    /\ LET after == tick_state(state)
       IN  /\ state' = after
           /\ database' = tick_database(database, after, auto_save_interval)
           /\ \E lucky \in LuckySets(state) :
                tick_data' = with_player_event(
                    tick_result(after, tick_events(state, after, auto_save_interval, lucky)),
                    last_boost_message)
    /\ last_boost_message' = last_boost_message
    /\ op' = Op("tick", "", 0, NoCmd, NoMsg)
    /\ pc' = "render"
    /\ UNCHANGED <<auto_save_interval, running, tick_rate, inputVars, reader,
                   keys_pressed, rendered, shutlog, mid_tick>>

\* while self.running: tick_data = self.logic.tick(), then the boost message
LoopTick ==
    /\ pc = "tick"
    /\ running
    /\ calls < MaxIterations
    /\ calls' = calls + 1
    /\ LET after == tick_state(state)
       IN  /\ state' = after
           /\ database' = tick_database(database, after, auto_save_interval)
           /\ \E lucky \in LuckySets(state) :
                tick_data' = with_player_event(
                    tick_result(after, tick_events(state, after, auto_save_interval, lucky)),
                    last_boost_message)
    /\ last_boost_message' = NoMsg
    /\ op' = Op("tick", "", 0, NoCmd, NoMsg)
    /\ pc' = "render"
    /\ UNCHANGED <<auto_save_interval, running, tick_rate, inputVars, reader,
                   keys_pressed, rendered, shutlog, mid_tick>>

\* while self.running is false: leave the loop for the finally block
LoopExit ==
    /\ pc = "tick"
    /\ ~running
    /\ pc' = "shutdown"
    /\ op' = Op("exit_loop", "", 0, NoCmd, NoMsg)
    /\ UNCHANGED <<gameVars, auto_save_interval, running, tick_rate, last_boost_message,
                   inputVars, reader, keys_pressed, rendered, shutlog, calls, mid_tick>>

\* self.display.render(tick_data)
Render ==
    /\ pc = "render"
    /\ LET r == update_selectable_items(tick_data, current_selection)
       IN  /\ selectable_items' = r.selectable_items
           /\ current_selection' = r.current_selection
    /\ rendered' = tick_data
    /\ op' = Op("render", "", 0, NoCmd, NoMsg)
    /\ pc' = "input"
    /\ UNCHANGED <<gameVars, auto_save_interval, running, tick_rate, last_boost_message,
                   input_queue, reader, keys_pressed, shutlog, calls, mid_tick>>

\* get_input written with a blocking get(): nothing happens while the queue is empty
HandleInputBlocking ==
    /\ pc = "input"
    /\ input_queue # <<>>
    /\ LET got == get_input(input_queue, current_selection, selectable_items)
           r == handle_command(got.cmd, state, database, running, tick_rate,
                               last_boost_message)
       IN  /\ input_queue' = got.input_queue
           /\ current_selection' = got.current_selection
           /\ state' = r.state
           /\ database' = r.database
           /\ running' = r.running
           /\ tick_rate' = r.tick_rate
           /\ last_boost_message' = r.last_boost_message
           /\ op' = Op("handle_input", "", 0, got.cmd, NoMsg)
    /\ pc' = "sleep"
    /\ UNCHANGED <<tick_data, auto_save_interval, selectable_items, reader,
                   keys_pressed, rendered, shutlog, calls, mid_tick>>

\* _handle_input whose quit branch does not clear self.running
HandleInputKeepsRunning ==
    /\ pc = "input"
    /\ LET got == get_input(input_queue, current_selection, selectable_items)
           r == handle_command(got.cmd, state, database, running, tick_rate,
                               last_boost_message)
       IN  /\ input_queue' = got.input_queue
           /\ current_selection' = got.current_selection
           /\ state' = r.state
           /\ database' = r.database
           /\ running' = running
           /\ tick_rate' = r.tick_rate
           /\ last_boost_message' = r.last_boost_message
           /\ op' = Op("handle_input", "", 0, got.cmd, NoMsg)
    /\ pc' = "sleep"
    /\ UNCHANGED <<tick_data, auto_save_interval, selectable_items, reader,
                   keys_pressed, rendered, shutlog, calls, mid_tick>>

\* self._handle_input()
HandleInput ==
    /\ pc = "input"
    /\ LET got == get_input(input_queue, current_selection, selectable_items)
           r == handle_command(got.cmd, state, database, running, tick_rate,
                               last_boost_message)
       IN  /\ input_queue' = got.input_queue
           /\ current_selection' = got.current_selection
           /\ state' = r.state
           /\ database' = r.database
           /\ running' = r.running
           /\ tick_rate' = r.tick_rate
           /\ last_boost_message' = r.last_boost_message
           /\ op' = Op("handle_input", "", 0, got.cmd, NoMsg)
    /\ pc' = "sleep"
    /\ UNCHANGED <<tick_data, auto_save_interval, selectable_items, reader,
                   keys_pressed, rendered, shutlog, calls, mid_tick>>

\* a loop whose sleep is followed by another render of the same tick_data
SleepRendersAgain ==
    /\ pc = "sleep"
    /\ pc' = "render"
    /\ op' = Op("sleep", "", 0, NoCmd, NoMsg)
    /\ UNCHANGED <<gameVars, auto_save_interval, running, tick_rate, last_boost_message,
                   inputVars, reader, keys_pressed, rendered, shutlog, calls, mid_tick>>

\* time.sleep(self.tick_rate)
Sleep ==
    /\ pc = "sleep"
    /\ pc' = "tick"
    /\ op' = Op("sleep", "", 0, NoCmd, NoMsg)
    /\ UNCHANGED <<gameVars, auto_save_interval, running, tick_rate, last_boost_message,
                   inputVars, reader, keys_pressed, rendered, shutlog, calls, mid_tick>>

\* except KeyboardInterrupt: self.running = False, on the way to the finally block
Interrupted ==
    /\ running' = FALSE
    /\ pc' = "shutdown"
    /\ op' = Op("KeyboardInterrupt", "", 0, NoCmd, NoMsg)

\* KeyboardInterrupt while self.logic.tick() runs: after any of its statements,
\* or after its save_game and before it returns
InterruptTick ==
    /\ pc = "tick"
    /\ running
    /\ calls < MaxIterations
    /\ calls' = calls + 1
    /\ LET steps == tick_steps(state)
       IN  \/ /\ \E k \in 0..Len(steps) :
                    /\ state' = IF k = 0 THEN state ELSE steps[k]
                    /\ mid_tick' = (0 < k /\ k < Len(steps))
              /\ database' = database
           \/ /\ auto_save_due(steps[Len(steps)], auto_save_interval)
              /\ state' = steps[Len(steps)]
              /\ database' = save_game(database, steps[Len(steps)])
              /\ mid_tick' = FALSE
    /\ Interrupted
    /\ UNCHANGED <<tick_data, auto_save_interval, tick_rate, last_boost_message,
                   inputVars, reader, keys_pressed, rendered, shutlog>>

\* KeyboardInterrupt before render, before _handle_input or during the sleep
InterruptBetween ==
    /\ pc \in {"render", "input", "sleep"}
    /\ Interrupted
    /\ UNCHANGED <<gameVars, auto_save_interval, tick_rate, last_boost_message,
                   inputVars, reader, keys_pressed, rendered, shutlog, calls, mid_tick>>

\* KeyboardInterrupt in _handle_input after get_input returned: the key is consumed,
\* the command is not applied
InterruptInput ==
    /\ pc = "input"
    /\ input_queue # <<>>
    /\ LET got == get_input(input_queue, current_selection, selectable_items)
       IN  /\ input_queue' = got.input_queue
           /\ current_selection' = got.current_selection
    /\ Interrupted
    /\ UNCHANGED <<gameVars, auto_save_interval, tick_rate, last_boost_message,
                   selectable_items, reader, keys_pressed, rendered, shutlog, calls, mid_tick>>

\* _shutdown without its save_game
ShutdownWithoutSave ==
    /\ pc = "shutdown"
    /\ shutlog' = shutlog \o <<"cleanup", "close">>
    /\ pc' = "exit"
    /\ op' = Op("shutdown", "", 0, NoCmd, NoMsg)
    /\ UNCHANGED <<gameVars, auto_save_interval, running, tick_rate,
                   last_boost_message, inputVars, reader, keys_pressed, rendered, calls, mid_tick>>

\* finally: self._shutdown(): save_game, display.cleanup, database.close
Shutdown ==
    /\ pc = "shutdown"
    /\ database' = save_game(database, state)
    /\ shutlog' = shutlog \o <<"save", "cleanup", "close">>
    /\ pc' = "exit"
    /\ op' = Op("shutdown", "", 0, NoCmd, NoMsg)
    /\ UNCHANGED <<state, tick_data, auto_save_interval, running, tick_rate,
                   last_boost_message, inputVars, reader, keys_pressed, rendered, calls, mid_tick>>

\* NCursesGameInterface.__exit__: self.display.cleanup()
Exit ==
    /\ pc = "exit"
    /\ shutlog' = Append(shutlog, "cleanup")
    /\ pc' = "done"
    /\ op' = Op("exit", "", 0, NoCmd, NoMsg)
    /\ UNCHANGED <<gameVars, auto_save_interval, running, tick_rate,
                   last_boost_message, inputVars, reader, keys_pressed, rendered, calls, mid_tick>>

----------------------------------------------------------------------------
(* NCursesDisplay._input_handler: the key-reader thread *)

\* a reader that serves the key itself: it boosts the first entity from its own thread
InputHandlerPutApplies ==
    /\ reader = "running"
    /\ pc # "done"
    /\ keys_pressed < MaxKeys
    /\ \E key \in RunKeys : input_queue' = Append(input_queue, key)
    /\ keys_pressed' = keys_pressed + 1
    /\ state' = apply_player_boost(state, EntityIds[1], DefaultBoost).state
    /\ UNCHANGED <<database, tick_data, auto_save_interval, op, running, tick_rate,
                   last_boost_message, pc, current_selection, selectable_items, reader,
                   rendered, shutlog, calls, mid_tick>>

\* one turn of its loop in which getch returned a key: self.input_queue.put(key).
\* A turn in which getch returns -1 changes nothing.
InputHandlerPut ==
    /\ reader = "running"
    /\ pc # "done"
    /\ keys_pressed < MaxKeys
    /\ \E key \in RunKeys : input_queue' = Append(input_queue, key)
    /\ keys_pressed' = keys_pressed + 1
    /\ UNCHANGED <<gameVars, auto_save_interval, op, running, tick_rate,
                   last_boost_message, pc, current_selection, selectable_items, reader,
                   rendered, shutlog, calls, mid_tick>>

\* getch raises and nothing catches it: the exception ends the process
InputHandlerStopCrashes ==
    /\ reader = "running"
    /\ pc # "done"
    /\ reader' = "stopped"
    /\ pc' = "done"
    /\ UNCHANGED <<gameVars, auto_save_interval, op, running, tick_rate,
                   last_boost_message, inputVars, keys_pressed, rendered, shutlog,
                   calls, mid_tick>>

\* getch raises: except: break
InputHandlerStop ==
    /\ reader = "running"
    /\ pc # "done"
    /\ reader' = "stopped"
    /\ UNCHANGED <<gameVars, auto_save_interval, op, running, tick_rate,
                   last_boost_message, pc, inputVars, keys_pressed, rendered, shutlog,
                   calls, mid_tick>>

Next ==
    \/ RunStart \/ LoopTick \/ LoopExit \/ Render \/ HandleInput \/ Sleep
    \/ InterruptTick \/ InterruptBetween \/ InterruptInput
    \/ Shutdown \/ Exit
    \/ InputHandlerPut \/ InputHandlerStop

Spec == Init /\ [][Next]_vars

\* logic.tick() can be called: the loop is at its top, running, with an iteration
\* of the model left
CanTick == pc = "tick" /\ running /\ calls < MaxIterations

\* weak fairness of LoopTick: LoopTick is enabled exactly when CanTick holds, and
\* every step that leaves CanTick starts the tick
FairTick == []<>(~CanTick)

\* the steps of the main thread other than the tick; at most one is enabled at a time
MainThread ==
    RunStart \/ LoopExit \/ Render \/ HandleInput \/ Sleep \/ Shutdown \/ Exit

\* the main thread takes its next step whenever it has one: none of its calls
\* blocks, and its sleep ends
FairMainThread == WF_vars(MainThread) /\ FairTick

\* a run on an empty save slot
InitLive == Construct(DefaultInterval, {EmptyDatabase}, RunDraws)

SpecLive == InitLive /\ [][Next]_vars /\ FairMainThread

----------------------------------------------------------------------------
(* IdleStuffGame.run when a statement of save_game_state raises sqlite3.Error.    *)
(* Nothing is committed by the failed save.  run() catches KeyboardInterrupt only, *)
(* so the exception leaves the loop through the finally block.                     *)

\* the exception on its way out of the while loop: running is left as it is
StorageFault ==
    /\ pc' = "shutdown"
    /\ op' = Op("StorageFault", "", 0, NoCmd, NoMsg)

\* logic.tick() whose auto-save raises: the statements of the tick have run, the
\* dict is not returned
LoopTickSaveFails ==
    /\ pc = "tick"
    /\ running
    /\ calls < MaxIterations
    /\ calls' = calls + 1
    /\ LET after == tick_state(state)
       IN  /\ auto_save_due(after, auto_save_interval)
           /\ state' = after
    /\ StorageFault
    /\ UNCHANGED <<database, tick_data, auto_save_interval, running, tick_rate,
                   last_boost_message, inputVars, reader, keys_pressed, rendered,
                   shutlog, mid_tick>>

\* _handle_input() whose manual save raises: the key is consumed, the message is
\* not set
HandleInputSaveFails ==
    /\ pc = "input"
    /\ LET got == get_input(input_queue, current_selection, selectable_items)
       IN  /\ got.cmd = Cmd("save", "")
           /\ input_queue' = got.input_queue
           /\ current_selection' = got.current_selection
    /\ StorageFault
    /\ UNCHANGED <<gameVars, auto_save_interval, running, tick_rate, last_boost_message,
                   selectable_items, reader, keys_pressed, rendered, shutlog, calls,
                   mid_tick>>

\* _shutdown() whose save_game raises: display.cleanup and database.close are skipped
ShutdownSaveFails ==
    /\ pc = "shutdown"
    /\ pc' = "exit"
    /\ op' = Op("shutdown_failed", "", 0, NoCmd, NoMsg)
    /\ UNCHANGED <<gameVars, auto_save_interval, running, tick_rate, last_boost_message,
                   inputVars, reader, keys_pressed, rendered, shutlog, calls, mid_tick>>

NextFaults == Next \/ LoopTickSaveFails \/ HandleInputSaveFails \/ ShutdownSaveFails

\* the program on a save slot whose writes can fail
SpecFaults == Init /\ [][NextFaults]_vars

----------------------------------------------------------------------------
(* IdleStuffGame.run over every stored game and every key: each key arrives while   *)
(* the loop is about to call _handle_input, so that get_input takes it at once      *)

InitDisplay == Construct(DefaultInterval, InitialDatabases, RunDraws)

\* _input_handler puts a key, any key, just before get_input looks at the queue
KeyPress ==
    /\ reader = "running"
    /\ pc = "input"
    /\ input_queue = <<>>
    /\ keys_pressed < MaxKeys
    /\ \E key \in Keys : input_queue' = <<key>>
    /\ keys_pressed' = keys_pressed + 1
    /\ UNCHANGED <<gameVars, auto_save_interval, op, running, tick_rate,
                   last_boost_message, pc, current_selection, selectable_items, reader,
                   rendered, shutlog, calls, mid_tick>>

NextDisplay ==
    \/ RunStart \/ LoopTick \/ LoopExit \/ Render \/ HandleInput \/ Sleep
    \/ Shutdown \/ Exit
    \/ KeyPress

SpecDisplay == InitDisplay /\ [][NextDisplay]_vars

----------------------------------------------------------------------------
(* Properties *)

\* efficiency * (1 + experience["gathering"] * 0.1) of an entity
RateTerm(e) == e.traits.efficiency * (1000 + Get(e.experience, Gathering, 0))

\* the sum of RateTerm over a set of entities of s
RateSum(s, ids) == SumOver([id \in DOMAIN s.entities |-> RateTerm(s.entities[id])], ids)

\* the entities of s whose current_task is gathering
Producers(s) == {id \in DOMAIN s.entities : s.entities[id].current_task = Gathering}

\* C1: state.tick grows by exactly 1 in every call of GameLogic.tick and is changed
\* by no other operation (apply_player_boost, save_game, any command), so it never
\* decreases.
C1_TickOnlyByTick ==
    [][IF op'.name = "tick"
       THEN state'.tick = state.tick + 1
       ELSE state'.tick = state.tick]_vars

\* C1 witness: a command has been handled after two ticks
C1_Witness == op.name = "handle_input" /\ state.tick >= 2 /\ calls = 3

C3_RateOverAllProducers ==
    (op.name = "tick" /\ Energy \in DOMAIN state.resources) =>
        state.resources[Energy].production_rate = RateSum(state, Producers(state))

\* C3 amended: after a tick the rate of energy is the sum of the terms of the
\* entities whose entity_type is gatherer and whose current_task is gathering: the
\* entities counted are those among the yield receivers whose type is gatherer.
C3_RateOverGatherers ==
    (op.name = "tick" /\ Energy \in DOMAIN state.resources) =>
        state.resources[Energy].production_rate =
            RateSum(state, {id \in Producers(state) :
                              state.entities[id].entity_type = "gatherer"})

\* C3 witness: a tick has run where a philosopher is gathering beside a gatherer
C3_Witness ==
    /\ op.name = "tick"
    /\ Energy \in DOMAIN state.resources
    /\ \E id \in Producers(state) : state.entities[id].entity_type # "gatherer"
    /\ \E id \in Producers(state) : state.entities[id].entity_type = "gatherer"
    /\ state.resources[Energy].production_rate > 0

\* the scenario of C4: a fresh game of three gatherers of efficiency 1.0 and
\* learning_rate 0.1, after exactly one tick in which nobody rolled a discovery
C4_Scenario ==
    /\ calls = 1
    /\ op.name = "tick"
    /\ state.tick = 1
    /\ tick_data.events = <<>>
    /\ DOMAIN state.resources = {Energy}
    /\ DOMAIN state.entities = {EntityIds[i] : i \in 1..3}
    /\ \A id \in DOMAIN state.entities :
          /\ state.entities[id].entity_type = "gatherer"
          /\ state.entities[id].current_task = Gathering
          /\ state.entities[id].traits.efficiency = 10
          /\ state.entities[id].traits.learning_rate = 10

\* C4 as stated: experience 0.1 each, production_rate 3.0, energy 16.0.
C4_ScenarioAsStated ==
    C4_Scenario =>
        /\ \A id \in DOMAIN state.entities : state.entities[id].experience[Gathering] = 10
        /\ state.resources[Energy].production_rate = 30000
        /\ state.resources[Energy].amount = 160000

\* C4 amended: experience 0.1 each, production_rate 3.03 (the rate is computed from
\* the experience already raised to 0.1), energy 16.03 (3.0 of yield, 3.03 of rate).
C4_ScenarioAmended ==
    C4_Scenario =>
        /\ \A id \in DOMAIN state.entities : state.entities[id].experience[Gathering] = 10
        /\ state.resources[Energy].production_rate = 30300
        /\ state.resources[Energy].amount = 160300

\* C4 witness: the scenario has happened
C4_Witness == C4_Scenario /\ state.resources[Energy].amount > StartEnergy

\* the number of system events in a sequence of events
SystemEvents(events) == Cardinality({i \in DOMAIN events : events[i].type = "system"})

\* C5: for every auto_save_interval >= 1, the events a tick returns hold the system
\* auto-save event exactly when the incremented tick is a multiple of the interval,
\* and never more than one.
C5_AutoSaveEvent ==
    op.name = "tick" =>
        /\ auto_save_interval >= 1
        /\ tick_data.tick = state.tick
        /\ SystemEvents(tick_data.events) =
              IF \E k \in 0..state.tick : k * auto_save_interval = state.tick
              THEN 1 ELSE 0

\* C5 witness: with interval 10 the event is in the events of tick 30
C5_Witness ==
    /\ op.name = "tick"
    /\ auto_save_interval = 10
    /\ state.tick = 30
    /\ SystemEvents(tick_data.events) = 1

\* an entity id that apply_player_boost refuses in state s
NotBoostable(s, id) ==
    id \notin DOMAIN s.entities \/ s.entities[id].current_task # Gathering

\* C6: apply_player_boost on an unknown id, or on an entity whose current_task is
\* not gathering, returns the failure and changes nothing of the state, called
\* directly or through a boost command.
C6_FailedBoostChangesNothing ==
    [][/\ (op'.name = "apply_player_boost" /\ NotBoostable(state, op'.entity_id)) =>
            /\ op'.ret = Msg("Boost failed!", "", 0)
            /\ state' = state
            /\ database' = database
       /\ (op'.name = "handle_input" /\ op'.cmd.word = "boost:"
             /\ NotBoostable(state, op'.cmd.arg)) =>
            /\ last_boost_message' = Msg("Boost failed!", "", 0)
            /\ state' = state
            /\ database' = database]_vars

\* C6 witness: a boost failed on an entity that exists and has no task
C6_Witness ==
    /\ op.name = "apply_player_boost"
    /\ op.entity_id \in DOMAIN state.entities
    /\ state.entities[op.entity_id].current_task = NoTask
    /\ op.ret.text = "Boost failed!"

\* C7: whenever apply_player_boost reports success, exactly one resource amount has
\* grown, by boost_multiplier * efficiency, and nothing else of the state changed.
C7_SuccessMeansOneResourceGrew ==
    [][(op'.name = "apply_player_boost" /\ op'.ret.text = "Boosted") =>
        /\ DOMAIN state'.resources = DOMAIN state.resources
        /\ \E n \in DOMAIN state.resources :
              /\ state'.resources[n].amount = state.resources[n].amount +
                    op'.boost_multiplier *
                    state.entities[op'.entity_id].traits.efficiency * 100
              /\ state' = [state EXCEPT !.resources[n].amount =
                                            state'.resources[n].amount]]_vars

\* the main thread's drain: one run of _handle_input
IsDrain == pc = "input" /\ pc' = "sleep"

IsPrefix(a, b) == Len(a) <= Len(b) /\ SubSeq(b, 1, Len(a)) = a

\* C8 as stated: when two keys are waiting, the drain observes the second and the
\* first is gone for good.
C8_LatestWins ==
    [][(IsDrain /\ Len(input_queue) = 2 /\ input_queue[1] # input_queue[2]) =>
        /\ op'.cmd = translate_key(input_queue[2], current_selection,
                                   selectable_items).cmd
        /\ input_queue' = <<>>]_vars

\* C8 amended: the queue is first in, first out: when C1 and then C2 are waiting,
\* the drain observes C1 and leaves C2, which the next drain observes; a publish
\* only appends, and nothing but a drain by the main thread removes a key.
C8_FirstInFirstOut ==
    [][/\ (IsDrain /\ input_queue # <<>>) =>
            /\ op'.cmd = translate_key(Head(input_queue), current_selection,
                                       selectable_items).cmd
            /\ input_queue' = Tail(input_queue)
       /\ pc = pc' => IsPrefix(input_queue, input_queue')]_vars

\* C8 witness: two different keys are waiting when the main thread comes to drain
C8_Witness ==
    /\ pc = "input"
    /\ Len(input_queue) = 2
    /\ input_queue[1] # input_queue[2]

\* C9 as stated: the channel never holds more than one unread command.
C9_AtMostOneUnread == Len(input_queue) <= 1

\* C9 amended: the channel is an unbounded queue that holds every key pressed and
\* not yet drained, possibly several; a publish by the reader never blocks, whatever
\* the queue holds, and a drain never blocks, even on the empty queue.
C9_NeverBlocks ==
    /\ Len(input_queue) <= keys_pressed
    /\ pc = "input" => ENABLED HandleInput
    /\ (reader = "running" /\ pc # "done" /\ keys_pressed < MaxKeys) =>
          ENABLED InputHandlerPut

\* C9 witness: a drain of the empty channel has returned None, and two keys have
\* been published since without a drain
C9_Witness ==
    /\ op.name = "handle_input"
    /\ op.cmd = NoCmd
    /\ pc = "sleep"
    /\ Len(input_queue) = 2

\* how many saves the shutdown steps hold
FinalSaves(log) == Cardinality({i \in DOMAIN log : log[i] = "save"})

\* C10: a run that ends, by quit or by KeyboardInterrupt at any point of an
\* iteration, goes through _shutdown, which saves exactly once; the slot then holds
\* the final state, and neither the state nor the slot changes afterwards.
C10_FinalSaveOnce ==
    [][/\ pc' \in {"exit", "done"} =>
            /\ FinalSaves(shutlog') = 1
            /\ save_game(database', state') = database'
       /\ pc \in {"exit", "done"} => (state' = state /\ database' = database)
       /\ pc' = "shutdown" => (shutlog' = <<>> /\ ~running')]_vars

\* C10 witness: a run ended by KeyboardInterrupt in its second iteration, no key
\* having been pressed
C10_Witness == pc = "done" /\ keys_pressed = 0 /\ calls = 2

\* C11: every step that writes the save slot (the auto-save in tick, the manual save,
\* the final save of _shutdown) writes the current state, and that state is one at a
\* tick boundary: no tick has been abandoned between two of its statements, an
\* interrupt that arrives while tick is running included.
C11_SavesAtTickBoundary ==
    [][database' # database => (database' = save_game(database, state') /\ ~mid_tick')]_vars

\* C12: in every reachable state, saving the state and loading the slot gives back
\* an equal state (tick, prestige_tokens, player_boost, every resource, every entity
\* with its type, task, traits and experience, the technologies), whatever game the
\* slot held before the save.
C12_SaveLoadRoundTrip ==
    \A db \in InitialDatabases \cup {database} :
        LET loaded == load_game_state(save_game_state(db, state))
        IN  loaded.found /\ loaded.state = state

\* a loaded game with a technology is saved over its older save after a tick
C12_Witness ==
    /\ op.name = "save_game"
    /\ calls = 2
    /\ state.tick = 1
    /\ state.technologies = <<"fire">>
    /\ LoadedState(database) = state

\* C13: the game state has one writer.  A step in which the main thread does not move
\* (a step of the key-reader thread) leaves the state, the save slot, the tick data,
\* the loop's settings, the selection, the rendered snapshot and the shutdown log as
\* they were: the reader writes the input queue and nothing else, so every change of
\* the state is a step of the main loop.
C13_SingleWriter ==
    [][pc' = pc =>
          /\ UNCHANGED <<state, database, tick_data, auto_save_interval>>
          /\ UNCHANGED <<running, tick_rate, last_boost_message, op>>
          /\ UNCHANGED <<current_selection, selectable_items, rendered, shutlog>>]_vars

\* the reader published a key and stopped while the main thread was inside an iteration
C13_Witness ==
    /\ reader = "stopped"
    /\ keys_pressed = 1
    /\ input_queue = <<" ">>
    /\ pc = "input"
    /\ state.tick = 1

\* C14: a save that fails inside an iteration (the auto-save of tick, the manual save
\* command) is absorbed: right after the failure the loop is still running and is at
\* the next step of the same iteration.
C14_SaveFailureAbsorbed ==
    op.name = "StorageFault" => (running /\ pc \in {"render", "sleep"})

\* C15: tick_rate stays within 0.1 s and 5.0 s.  speed_up sets it to
\* max(0.1, 0.8 * tick_rate), speed_down to min(5.0, 1.25 * tick_rate), and any other
\* command leaves it as it is.
C15_TickIntervalClamped ==
    [][/\ 100000 <= tick_rate' /\ tick_rate' <= 5000000
       /\ tick_rate' =
            IF op'.cmd = Cmd("speed_up", "")
            THEN (IF (tick_rate * 8) \div 10 < 100000 THEN 100000
                  ELSE (tick_rate * 8) \div 10)
            ELSE IF op'.cmd = Cmd("speed_down", "")
            THEN (IF (tick_rate * 125) \div 100 > 5000000 THEN 5000000
                  ELSE (tick_rate * 125) \div 100)
            ELSE tick_rate]_vars

\* the eleventh speed_up in a row is the first one stopped at 0.1 s
C15_Witness ==
    /\ calls = 11
    /\ op.cmd = Cmd("speed_up", "")
    /\ tick_rate = 100000
    /\ last_boost_message = Msg("Game speed increased", "", 1)

\* the snapshot shows the amounts the state holds
ShowsAmounts(snapshot, s) ==
    snapshot.resources = [n \in DOMAIN s.resources |-> s.resources[n].amount]

\* the snapshot carries a player event with this message
ShowsMessage(snapshot, message) ==
    \E i \in DOMAIN snapshot.events : snapshot.events[i] = Event("player", "", message)

\* the steps the main thread takes from one position of run() to another
LoopOrder ==
    {<<"start", "tick">>, <<"tick", "render">>, <<"render", "input">>,
     <<"input", "sleep">>, <<"sleep", "tick">>, <<"tick", "shutdown">>,
     <<"render", "shutdown">>, <<"input", "shutdown">>, <<"sleep", "shutdown">>,
     <<"shutdown", "exit">>, <<"exit", "done">>}

\* C16 as stated: when the loop reaches its sleep after draining a command that sets
\* a status message, the snapshot rendered in this iteration already shows the
\* amounts the command left and carries its message.
C16_CommandShownSameIteration ==
    (pc = "sleep" /\ op.name = "handle_input" /\ last_boost_message # NoMsg) =>
        (ShowsAmounts(rendered, state) /\ ShowsMessage(rendered, last_boost_message))

\* C16 amended: an iteration is tick, render, drain-and-apply, sleep, in this order.
\* The drain comes after the render of its iteration and leaves the snapshot as it
\* is; the tick of the next iteration starts from the state the command left, takes
\* the pending message as its last event and clears the slot, and the render that
\* follows shows exactly that tick's data.
C16_CommandShownNextIteration ==
    [][/\ pc' # pc => <<pc, pc'>> \in LoopOrder
       /\ (pc = "input" /\ pc' = "sleep") =>
            /\ rendered' = rendered
            /\ rendered.tick = state.tick
       /\ (pc = "tick" /\ pc' = "render") =>
            /\ ShowsAmounts(tick_data', tick_state(state))
            /\ last_boost_message # NoMsg =>
                  /\ ShowsMessage(tick_data', last_boost_message)
                  /\ tick_data'.events[Len(tick_data'.events)] =
                        Event("player", "", last_boost_message)
            /\ last_boost_message' = NoMsg
       /\ (pc = "render" /\ pc' = "input") => rendered' = tick_data]_vars

\* the boost drained in the first iteration is on screen in the second
C16_Witness ==
    /\ pc = "input"
    /\ calls = 2
    /\ ShowsMessage(rendered, Msg("Boosted", "Zara", 20))
    /\ rendered.tick = 2
    /\ rendered.resources[Energy] = 160300 + 20000 + 30300 + 30600

\* a quit key is in the queue, not yet drained
QuitPending == \E i \in DOMAIN input_queue : input_queue[i] = "q"

\* the last step of the main thread drained the quit command
QuitDrained == op.name = "handle_input" /\ op.cmd = Cmd("quit", "")

\* the loop has used up the iterations of the model
OutOfIterations == pc = "tick" /\ running /\ ~CanTick

\* run() is over, through _shutdown: one final save, the display released
ShutDown ==
    /\ pc = "done"
    /\ FinalSaves(shutlog) = 1
    /\ \E i \in DOMAIN shutlog : shutlog[i] = "cleanup"

\* C17: as long as the loop keeps iterating, a published quit key leads to the end of
\* run() through _shutdown (final save, display released); a drained quit always
\* does.  Once running is false, no tick runs, nothing is rendered, no key is taken
\* from the queue and no command is applied.
C17_QuitTerminates ==
    /\ QuitPending ~> (ShutDown \/ OutOfIterations)
    /\ QuitDrained ~> ShutDown
    /\ [][(~running /\ pc # "start") =>
            /\ UNCHANGED <<state, tick_data, rendered, tick_rate, last_boost_message>>
            /\ UNCHANGED <<current_selection, selectable_items, calls>>
            /\ IsPrefix(input_queue, input_queue')
            /\ running' = running]_vars

\* the loop test failed after a quit was drained: the way to _shutdown
C17_Witness ==
    /\ pc = "shutdown"
    /\ op.name = "exit_loop"
    /\ ~running
    /\ state.tick = 2
    /\ keys_pressed = 2

\* C18: when the key source fails the reader stops for good and publishes no further
\* key; the step in which it stops leaves the main thread and the game untouched.
\* With the reader stopped, a loop that can tick does tick, and from the render of
\* that tick it comes back to the top of the loop (unless quit or an interrupt ends
\* the run), whether or not a key is waiting; each tick step adds exactly one to the
\* tick, which the render that follows shows.
C18_ReaderFailureHarmless ==
    /\ [][reader = "stopped" =>
            /\ reader' = "stopped"
            /\ keys_pressed' = keys_pressed
            /\ Len(input_queue') <= Len(input_queue)]_vars
    /\ [][reader' # reader =>
            /\ reader' = "stopped"
            /\ UNCHANGED <<pc, running, state, database, tick_data, rendered, shutlog>>]_vars
    /\ [][(reader = "stopped" /\ pc = "tick" /\ pc' = "render") =>
            state'.tick = state.tick + 1]_vars
    /\ [][(reader = "stopped" /\ pc = "render" /\ pc' = "input") =>
            rendered'.tick = state.tick]_vars
    /\ (reader = "stopped" /\ CanTick) ~> (pc = "render" \/ ~running)
    /\ (reader = "stopped" /\ running /\ pc = "render") ~> (pc = "tick" \/ ~running)

\* the reader stopped before any key arrived, and the loop is in its second iteration
C18_Witness ==
    /\ reader = "stopped"
    /\ keys_pressed = 0
    /\ running
    /\ calls = 2
    /\ pc = "input"
    /\ state.tick = 2
    /\ rendered.tick = 2

\* some entity's task feeds the resource: 'gathering' feeds energy, and no task
\* feeds any other resource
Fed(s, name) == name = Energy /\ Producers(s) # {}

\* C19: a tick recomputes the production rate of every resource.  A resource that no
\* entity feeds (a loaded resource other than energy, whatever rate was stored with
\* it, or energy when no entity is gathering) has rate 0 after the tick and the same
\* amount as before it.
C19_EveryRateRecomputed ==
    [][op'.name = "tick" =>
          \A name \in DOMAIN state.resources :
              ~Fed(state, name) =>
                  /\ state'.resources[name].production_rate = 0
                  /\ state'.resources[name].amount = state.resources[name].amount]_vars

\* what the rate application adds to a resource of s
RateGain(s, name) ==
    IF s.resources[name].production_rate > 0 THEN s.resources[name].production_rate ELSE 0

\* C20: in a tick every entity whose task is gathering adds
\* efficiency * (1 + 0.1 * experience) to energy, with the experience it had before
\* the tick, and then gains exactly learning_rate of gathering experience, nothing
\* else of it changing; an entity with no task or another task is left as it was and
\* adds nothing.  So energy grows by the yields of the gathering entities plus the
\* applied rate, and any other resource by its applied rate only.
C20_YieldThenExperience ==
    [][op'.name = "tick" =>
          /\ DOMAIN state'.entities = DOMAIN state.entities
          /\ \A id \in DOMAIN state.entities :
                LET e == state.entities[id]
                IN  state'.entities[id] =
                        IF e.current_task = Gathering
                        THEN [e EXCEPT !.experience =
                                [task \in DOMAIN e.experience \cup {Gathering} |->
                                    IF task = Gathering
                                    THEN Get(e.experience, Gathering, 0)
                                         + e.traits.learning_rate
                                    ELSE e.experience[task]]]
                        ELSE e
          /\ \A name \in DOMAIN state.resources :
                state'.resources[name].amount =
                    state.resources[name].amount
                    + (IF name = Energy THEN RateSum(state, Producers(state)) ELSE 0)
                    + RateGain(state', name)]_vars

\* a tick of a loaded game: an experienced gatherer, a gathering philosopher with no
\* experience yet, and an idle builder
C20_Witness ==
    /\ op.name = "tick"
    /\ calls = 1
    /\ state.tick = 10
    /\ state.entities["entity_0"].experience[Gathering] = 60
    /\ state.entities["entity_1"].experience[Gathering] = 5
    /\ state.entities["entity_2"].experience[Gathering] = 20
    /\ state.resources[Energy].amount = 500000 + 10500 + 12000 + 10600

\* C21 as stated: the call of tick in the loop leaves the save slot as it was.
C21_TickLeavesSlot ==
    [][(pc = "tick" /\ pc' = "render") => database' = database]_vars

\* C21 amended: tick saves by itself.  The call of tick whose incremented tick is a
\* multiple of auto_save_interval writes the state it leaves to the slot before it
\* returns, and returns the system event; any other call of tick leaves the slot as
\* it was and returns no system event.  The render that follows writes nothing.
C21_TickSavesItself ==
    [][/\ (pc = "tick" /\ pc' = "render") =>
            IF state'.tick % auto_save_interval = 0
            THEN /\ database' = save_game(database, state')
                 /\ SystemEvents(tick_data'.events) = 1
            ELSE /\ database' = database
                 /\ SystemEvents(tick_data'.events) = 0
       /\ (pc = "render" /\ pc' = "input") => database' = database]_vars

\* the tick that reached 10 has returned and the slot already holds tick 10
C21_Witness ==
    /\ pc = "render"
    /\ state.tick = 10
    /\ SystemEvents(tick_data.events) = 1
    /\ \E r \in database.game_state : r.id = SlotId /\ r.tick = 10

\* C22: in a state with no energy resource a tick still adds one to the tick, and an
\* entity whose task is gathering is a no-op: no resource is created, no amount
\* changes but by the applied rate, and the entity, its experience included, is left
\* as it was.
C22_MissingResourceNoOp ==
    [][(op'.name = "tick" /\ Energy \notin DOMAIN state.resources) =>
          /\ state'.tick = state.tick + 1
          /\ DOMAIN state'.resources = DOMAIN state.resources
          /\ \A name \in DOMAIN state.resources :
                state'.resources[name].amount =
                    state.resources[name].amount + RateGain(state', name)
          /\ \A id \in Producers(state) : state'.entities[id] = state.entities[id]]_vars

\* C23: the selection index is never negative, and is at most the number of
\* selectable items minus one whenever there is at least one item.
C23_SelectionWithinBounds ==
    /\ 0 <= current_selection
    /\ Len(selectable_items) >= 1 => current_selection <= Len(selectable_items) - 1

\* the messages of the player events of a snapshot, in order
PlayerMessages(snapshot) ==
    LET found == SelectSeq(snapshot.events, LAMBDA e : e.type = "player")
    IN  [i \in 1..Len(found) |-> found[i].message]

\* C24: the status message is one slot, shown once.  The slot is empty whenever the
\* loop is about to render or to handle input, so a command never overwrites a
\* message that has not been shown; the tick step moves a pending message into its
\* events, once, and empties the slot; and each render shows a snapshot of a later
\* tick than the one before, so a message is in at most one rendered snapshot.
C24_MessageShownOnce ==
    [][/\ pc' \in {"render", "input"} => last_boost_message' = NoMsg
       /\ (pc = "input" /\ pc' = "sleep") => last_boost_message = NoMsg
       /\ (pc = "tick" /\ pc' = "render") =>
            PlayerMessages(tick_data') =
                IF last_boost_message # NoMsg THEN <<last_boost_message>> ELSE <<>>
       /\ (pc = "render" /\ pc' = "input") =>
            /\ rendered' = tick_data
            /\ rendered'.tick > rendered.tick]_vars

\* the message of a manual save is on screen in the second iteration, the slot empty
C24_Witness ==
    /\ pc = "input"
    /\ calls = 2
    /\ PlayerMessages(rendered) = <<Msg("Game saved manually!", "", 0)>>
    /\ last_boost_message = NoMsg

\* the command vocabulary of _handle_input
InVocabulary(cmd) ==
    \/ cmd.word = "boost:"
    \/ cmd.word \in {"quit", "save", "speed_up", "speed_down", "reset"} /\ cmd.arg = ""

\* C25: handling a command outside the vocabulary quit, save, boost:<entity_id>,
\* speed_up, speed_down, reset (nav_up, nav_down, a bare boost, no command) leaves the
\* game state, the tick interval, running, the status message and the save slot as
\* they were
C25_UnrecognizedIgnored ==
    [][(op'.name = "handle_input" /\ ~InVocabulary(op'.cmd)) =>
          /\ state' = state
          /\ tick_rate' = tick_rate
          /\ running' = running
          /\ last_boost_message' = last_boost_message
          /\ database' = database]_vars

\* a bare boost was handled while a message was pending and the speed had been changed
C25_Witness ==
    /\ op.name = "handle_input"
    /\ op.cmd = Cmd("boost", "")
    /\ last_boost_message # NoMsg
    /\ tick_rate # StartTickRate
    /\ calls >= 3

\* a state as _initialize_base_game leaves it: tick 0, energy = 10.0 alone, three
\* gatherers that gather with no experience yet
IsFreshGame(s) ==
    /\ s.tick = 0
    /\ DOMAIN s.resources = {Energy}
    /\ s.resources[Energy].name = Energy
    /\ s.resources[Energy].amount = StartEnergy
    /\ Cardinality(DOMAIN s.entities) = 3
    /\ \A id \in DOMAIN s.entities :
          /\ s.entities[id].id = id
          /\ s.entities[id].entity_type = "gatherer"
          /\ s.entities[id].current_task = Gathering
          /\ DOMAIN s.entities[id].experience = {Gathering}
          /\ s.entities[id].experience[Gathering] = 0

SameFrame(s, t) ==
    /\ DOMAIN t.resources = DOMAIN s.resources
    /\ \A n \in DOMAIN s.resources : t.resources[n].name = s.resources[n].name
    /\ DOMAIN t.entities = DOMAIN s.entities
    /\ \A id \in DOMAIN s.entities :
          /\ t.entities[id].id = s.entities[id].id
          /\ t.entities[id].name = s.entities[id].name
          /\ t.entities[id].entity_type = s.entities[id].entity_type
          /\ t.entities[id].traits = s.entities[id].traits
    /\ t.technologies = s.technologies
    /\ t.prestige_tokens = s.prestige_tokens
    /\ t.player_boost = s.player_boost

\* C27: no tick, boost, command or save adds, removes or re-keys a resource or an
\* entity, or changes an entity's traits, id, name or type, the technologies,
\* prestige_tokens or player_boost
C27_FrameOfRun == [][SameFrame(state, state')]_vars

\* a game without an energy resource after a tick and a boost command: the resource
\* has not appeared
C27_Witness ==
    /\ op.name = "handle_input"
    /\ op.cmd.word = "boost:"
    /\ state.tick = 4
    /\ Energy \notin DOMAIN state.resources
    /\ state.prestige_tokens = 1

\* C28: an iteration of the loop advances the tick once (in its tick step, by one),
\* renders once (in its render step, the snapshot of that tick) and takes at most one
\* key from the queue (in its input step); the ticks of successive rendered snapshots
\* go up by exactly 1
C28_OnePerIteration ==
    [][/\ (pc = "tick" /\ pc' = "render") =>
            /\ state'.tick = state.tick + 1
            /\ tick_data'.tick = state'.tick
       /\ (pc # "tick") => state'.tick = state.tick
       /\ (pc = "render" /\ pc' = "input") =>
            /\ rendered' = tick_data
            /\ rendered'.tick = state.tick
            /\ rendered # NoTickData => rendered'.tick = rendered.tick + 1
       /\ ~(pc = "render" /\ pc' = "input") => rendered' = rendered
       /\ Len(input_queue') >= Len(input_queue) - 1
       /\ Len(input_queue') < Len(input_queue) => pc = "input"
       /\ (pc = "sleep" /\ pc' = "tick") => rendered.tick = state.tick]_vars

\* the second iteration has rendered tick 11 after tick 10 and taken one of two keys
C28_Witness ==
    /\ pc = "sleep"
    /\ calls = 2
    /\ rendered.tick = 11
    /\ state.tick = 11
    /\ keys_pressed = 2
    /\ Len(input_queue) = 1

\* C29: a "boost:<id>" command that get_input produced names an entity of the game
\* state the loop applies it to, and every item a key press can select at the input
\* step is such an entity
C29_BoostNamesEntity ==
    /\ (op.name = "handle_input" /\ op.cmd.word = "boost:") =>
            op.cmd.arg \in DOMAIN state.entities
    /\ pc = "input" =>
            \A i \in 1..Len(selectable_items) : selectable_items[i] \in DOMAIN state.entities

\* the down arrow and then the space bar: the second entity is boosted
C29_Witness ==
    /\ pc = "sleep"
    /\ op.name = "handle_input"
    /\ op.cmd = Cmd("boost:", "entity_1")
    /\ current_selection = 1
    /\ last_boost_message # NoMsg

\* the number of times a step occurs in the log of shutdown steps
Times(log, step) == Cardinality({i \in DOMAIN log : log[i] = step})

\* every occurrence of step a in the log comes before every occurrence of step b
Before(log, a, b) == \A i, j \in DOMAIN log : (log[i] = a /\ log[j] = b) => i < j

\* C30: a run that has terminated has done the final save, then the display cleanup,
\* then the database close; the cleanup exactly once, and no save after the close
C30_ShutdownOrder ==
    pc = "done" =>
        /\ Times(shutlog, "save") >= 1
        /\ Times(shutlog, "close") >= 1
        /\ Before(shutlog, "save", "cleanup")
        /\ Before(shutlog, "cleanup", "close")
        /\ Before(shutlog, "save", "close")
        /\ Times(shutlog, "cleanup") = 1

====
